---- MODULE Spec2Model ----
(***************************************************************************)
(* Gamma exposure engine of GMestreM/gex_data (src/gamma_exposure.py):     *)
(* calc_gamma and the three exposure conversions, is_third_friday, the     *)
(* per-strike aggregator calculate_spot_total_gamma_call_puts and the      *)
(* profile sweep with its zero-gamma lookup, calculate_gamma_profile; and  *)
(* the update run that stores their results (src/database.py,              *)
(* update_database, and src/main.py, update_db).                           *)
(*                                                                         *)
(* Numbers.  The code computes in IEEE doubles.  The model computes in     *)
(* exact arithmetic on values (n/d) * 10^e, kept as records [n, d, e]      *)
(* with d > 0, plus one value NaN (d = 0) that propagates through every    *)
(* operation the way a float NaN does.  Rounding error is not modelled.    *)
(* The library functions np.log, np.sqrt, np.exp and norm.pdf have no      *)
(* exact rational value; Ln, Sqrt, Exp and NormPdf below evaluate them on  *)
(* a coarse grid that keeps their sign, their zeros, their domain (NaN     *)
(* outside it) and their direction of growth.                              *)
(***************************************************************************)
EXTENDS Integers, Sequences, FiniteSets, TLC

(***************************************************************************)
(* Arithmetic                                                              *)
(***************************************************************************)
Abs(k) == IF k < 0 THEN -k ELSE k

Min2(a, b) == IF a < b THEN a ELSE b

RECURSIVE GCD(_, _)
GCD(a, b) == IF b = 0 THEN a ELSE GCD(b, a % b)

RECURSIVE Pow10(_)
Pow10(k) == IF k <= 0 THEN 1 ELSE 10 * Pow10(k - 1)

NaN == [n |-> 0, d |-> 0, e |-> 0]

IsNaN(x) == x.d = 0

\* One normal form per value: lowest terms, no factor of ten left in n or in d,
\* and e as near to 0 as that allows.
RECURSIVE Strip10(_, _, _)
Strip10(n, d, e) ==
    IF n = 0 THEN [n |-> 0, d |-> 1, e |-> 0]
    ELSE IF n % 10 = 0 THEN Strip10(n \div 10, d, e + 1)
    ELSE IF d % 10 = 0 THEN Strip10(n, d \div 10, e - 1)
    ELSE IF e > 0 /\ d % 2 = 0 THEN Strip10(5 * n, d \div 2, e - 1)
    ELSE IF e > 0 /\ d % 5 = 0 THEN Strip10(2 * n, d \div 5, e - 1)
    ELSE IF e < 0 /\ n % 2 = 0 THEN Strip10(n \div 2, 5 * d, e + 1)
    ELSE IF e < 0 /\ n % 5 = 0 THEN Strip10(n \div 5, 2 * d, e + 1)
    ELSE [n |-> n, d |-> d, e |-> e]

\* (n/d) * 10^e in normal form; d = 0 is NaN.
Num(n, d, e) ==
    IF d = 0 THEN NaN
    ELSE LET s == IF d < 0 THEN -1 ELSE 1
             g == GCD(Abs(n), Abs(d))
         IN  Strip10((s * n) \div g, Abs(d) \div g, e)

Int2Num(k) == Num(k, 1, 0)

Frac(n, d) == Num(n, d, 0)

Zero == Int2Num(0)

Neg(a) == IF IsNaN(a) THEN NaN ELSE [a EXCEPT !.n = -a.n]

\* The factors are in lowest terms, so the product is once g1 and g2 are
\* cancelled.
Mul(a, b) ==
    IF IsNaN(a) \/ IsNaN(b) THEN NaN
    ELSE LET g1 == GCD(Abs(a.n), b.d)
             g2 == GCD(Abs(b.n), a.d)
         IN  Strip10((a.n \div g1) * (b.n \div g2), (a.d \div g2) * (b.d \div g1),
                     a.e + b.e)

\* A zero divisor gives a non-finite float; the model folds it into NaN.
Div(a, b) ==
    IF IsNaN(a) \/ IsNaN(b) \/ b.n = 0 THEN NaN
    ELSE Mul(a, [n |-> (IF b.n < 0 THEN -b.d ELSE b.d), d |-> Abs(b.n), e |-> -b.e])

Add(a, b) ==
    IF IsNaN(a) \/ IsNaN(b) THEN NaN
    ELSE IF a.n = 0 THEN b
    ELSE IF b.n = 0 THEN a
    ELSE LET e  == Min2(a.e, b.e)
             an == a.n * Pow10(a.e - e)
             bn == b.n * Pow10(b.e - e)
             g  == GCD(a.d, b.d)
         IN  Num(an * (b.d \div g) + bn * (a.d \div g), (a.d \div g) * b.d, e)

Sub(a, b) == Add(a, Neg(b))

\* np.sign on a finite value: -1, 0 or 1.
Sign(a) == IF a.n < 0 THEN -1 ELSE IF a.n > 0 THEN 1 ELSE 0

\* Float comparison: anything compared with NaN is false.
Eq(a, b) == ~IsNaN(a) /\ ~IsNaN(b) /\ Sub(a, b).n = 0

Lt(a, b) == ~IsNaN(a) /\ ~IsNaN(b) /\ Sub(a, b).n < 0

\* The integer part of |a|.
FloorAbs(a) == (Abs(a.n) * Pow10(a.e)) \div (a.d * Pow10(-a.e))

(***************************************************************************)
(* Library functions, on a coarse grid                                     *)
(***************************************************************************)
RECURSIVE SqrtUp(_, _)
SqrtUp(x, m) == IF ~Lt(Frac(m * m, 100), x) THEN m ELSE SqrtUp(x, m + 1)

\* np.sqrt: NaN below 0; otherwise the square root rounded up to tenths, so
\* that Sqrt(x) > 0 exactly when x > 0.
Sqrt(x) ==
    IF IsNaN(x) \/ x.n < 0 THEN NaN ELSE Frac(SqrtUp(x, 0), 10)

\* np.log: NaN at and below 0 (log(0) is non-finite); otherwise the first
\* term of the series ln x = 2 atanh((x-1)/(x+1)), which has ln's sign and
\* ln's zero at 1.
Ln(x) ==
    IF IsNaN(x) \/ x.n <= 0 THEN NaN
    ELSE Div(Mul(Int2Num(2), Sub(x, Int2Num(1))), Add(x, Int2Num(1)))

\* np.exp: 1 + x from 0 up, 1/(1 - x) below 0; positive, Exp(0) = 1.
Exp(x) ==
    IF IsNaN(x) THEN NaN
    ELSE IF x.n >= 0 THEN Add(Int2Num(1), x)
    ELSE Div(Int2Num(1), Sub(Int2Num(1), x))

RECURSIVE Pow2(_)
Pow2(k) == IF k <= 0 THEN 1 ELSE 2 * Pow2(k - 1)

\* norm.pdf: even, positive, 0.4 at its peak and halving with each whole unit
\* of |x|, up to four halvings.
NormPdf(x) ==
    IF IsNaN(x) THEN NaN ELSE Frac(2, 5 * Pow2(Min2(FloorAbs(x), 4)))

(***************************************************************************)
(* calc_gamma and the exposure conversions                                 *)
(***************************************************************************)
\* Line 16 testing T alone: a zero volatility reaches the formula.
calc_gamma_guard_T_only(vol, T) == Eq(T, Zero)

\* calc_gamma with the guard of line 16 weakened from "or" to "and".
calc_gamma_guard_and(vol, T) == Eq(T, Zero) /\ Eq(vol, Zero)

\* Line 16: if T == 0 or vol == 0.
calc_gamma_guard(vol, T) == Eq(T, Zero) \/ Eq(vol, Zero)

\* Lines 19-27: the Black-Scholes branch.
black_scholes_gamma(S, K, vol, T, r, q, option_type) ==
    LET sqrtT    == Sqrt(T)
        volSqrtT == Mul(vol, sqrtT)
        drift    == Mul(Add(Sub(r, q), Mul(Frac(1, 2), Mul(vol, vol))), T)
        dp       == Div(Add(Ln(Div(S, K)), drift), volSqrtT)
        dm       == Sub(dp, volSqrtT)
    IN  IF option_type = "call"
        THEN Div(Mul(Exp(Neg(Mul(q, T))), NormPdf(dp)), Mul(Mul(S, vol), sqrtT))
        ELSE Div(Mul(Mul(K, Exp(Neg(Mul(r, T)))), NormPdf(dm)),
                 Mul(Mul(Mul(S, S), vol), sqrtT))

calc_gamma(S, K, vol, T, r, q, option_type) ==
    IF calc_gamma_guard(vol, T) THEN Zero
    ELSE black_scholes_gamma(S, K, vol, T, r, q, option_type)

\* Line 34: open_interest * 100 * (S**2) * 0.01 * gamma.
gamma_exposure(open_interest, S, gamma) ==
    Mul(Mul(Mul(Mul(open_interest, Int2Num(100)), Mul(S, S)), Frac(1, 100)), gamma)

\* Line 42: open_interest * 100 * (S) * gamma.
gamma_exposure_shares(open_interest, S, gamma) ==
    Mul(Mul(Mul(open_interest, Int2Num(100)), S), gamma)

\* Line 50: open_interest * 100 * gamma.
gamma_exposure_theoretical(open_interest, gamma) ==
    Mul(Mul(open_interest, Int2Num(100)), gamma)

\* Lines 30-36.
calc_gamma_exposure(S, K, vol, T, r, q, option_type, open_interest) ==
    gamma_exposure(open_interest, S, calc_gamma(S, K, vol, T, r, q, option_type))

\* Lines 38-44.
calc_gamma_exposure_shares(S, K, vol, T, r, q, option_type, open_interest) ==
    gamma_exposure_shares(open_interest, S, calc_gamma(S, K, vol, T, r, q, option_type))

\* Lines 46-52.
calc_gamma_exposure_theoretical(S, K, vol, T, r, q, option_type, open_interest) ==
    gamma_exposure_theoretical(open_interest, calc_gamma(S, K, vol, T, r, q, option_type))

(***************************************************************************)
(* Dates: ordinals counted from Monday 2024-01-01 (ordinal 0)              *)
(***************************************************************************)
\* pandas NaT, the minimum of an empty datetime column.
NaT == -1

\* datetime.weekday(): Monday is 0, Friday is 4.
weekday(d) == d % 7

\* The calendar runs over this many years from 2024.
MaxYears == 28

\* The months of a leap year.
MonthLengths == <<31, 29, 31, 30, 31, 30, 31, 31, 30, 31, 30, 31>>

\* The months of year 2024 + y; every fourth year from 2024 is a leap year
\* (up to 2099).
month_lengths(y) == IF y % 4 = 0 THEN MonthLengths ELSE [MonthLengths EXCEPT ![2] = 28]

\* The ordinal of January 1st of year 2024 + y.
YearStart(y) == 365 * y + (y + 3) \div 4

year_of(d) == CHOOSE y \in 0 .. MaxYears : YearStart(y) <= d /\ d < YearStart(y + 1)

\* d is a day of the year counted from 0, m the month the count starts in.
RECURSIVE DayInMonth(_, _, _)
DayInMonth(d, m, lengths) ==
    IF d < lengths[m] THEN d + 1 ELSE DayInMonth(d - lengths[m], m + 1, lengths)

\* datetime.day.
day(d) == DayInMonth(d - YearStart(year_of(d)), 1, month_lengths(year_of(d)))

\* Lines 56-57 testing the day of month alone.
is_third_friday_any_weekday(d) == 15 <= day(d) /\ day(d) <= 21

\* Lines 56-57.
is_third_friday(d) == weekday(d) = 4 /\ 15 <= day(d) /\ day(d) <= 21

\* The ordinal of the first day of month m, months counted from January 2024
\* as 1.
RECURSIVE DaysBefore(_, _)
DaysBefore(lengths, m) == IF m = 1 THEN 0 ELSE lengths[m - 1] + DaysBefore(lengths, m - 1)

month_start(m) ==
    YearStart((m - 1) \div 12) + DaysBefore(month_lengths((m - 1) \div 12), ((m - 1) % 12) + 1)

month_length(m) == month_lengths((m - 1) \div 12)[((m - 1) % 12) + 1]

\* The dates of month m, in order.
MonthDates(m) == [k \in 1 .. month_length(m) |-> month_start(m) + k - 1]

Months == 1 .. (12 * MaxYears)

\* np.busday_count(begin, end): the weekdays in [begin, end); with end before
\* begin, minus the weekdays in (end, begin].
busday_count(begin, end) ==
    IF begin <= end
    THEN Cardinality({d \in begin .. (end - 1) : weekday(d) < 5})
    ELSE -Cardinality({d \in (end + 1) .. begin : weekday(d) < 5})

(***************************************************************************)
(* Inputs                                                                  *)
(***************************************************************************)
\* The longest option chain of the model.
MaxContracts == 2

\* np.linspace(from_strike, to_strike, 60), line 181.
NumLevels == 60

Billion == 1000000000

Contract(type, K, exp, vol, oi, g) ==
    [strike |-> K, expiration |-> exp, optionType |-> type,
     impliedVolatility |-> vol, openInterest |-> oi, gamma |-> g]

\* The rows a chain is drawn from.  Expirations: 9 is Wed 2024-01-10 (the
\* day of last_trade_date), 11 is Fri 2024-01-12, 18 is Fri 2024-01-19 (a
\* third Friday), 46 is Fri 2024-02-16 (a third Friday).  Row 5 has zero
\* volatility; row 6 a negative strike and row 7 a negative open interest;
\* row 9 is row 5 with a positive volatility.
Universe ==
    << Contract("call", Int2Num(160), 18, Frac(1, 5), Int2Num(1), Frac(1, 100)),
       Contract("put",  Int2Num(130), 18, Frac(1, 5), Int2Num(1), Frac(1, 50)),
       Contract("call", Int2Num(150), 9,  Frac(1, 5), Int2Num(1), Frac(3, 100)),
       Contract("put",  Int2Num(150), 9,  Frac(1, 5), Int2Num(1), Frac(3, 100)),
       Contract("call", Int2Num(130), 11, Zero,       Int2Num(3), Zero),
       Contract("put",  Int2Num(-130), 18, Frac(1, 5), Int2Num(1), Frac(1, 100)),
       Contract("call", Int2Num(160), 46, Frac(1, 5), Int2Num(-1), Frac(1, 50)),
       Contract("put",  Int2Num(160), 11, Frac(1, 5), Int2Num(2), Frac(1, 100)),
       Contract("call", Int2Num(130), 11, Frac(1, 5), Int2Num(3), Frac(1, 50)) >>

\* Chains are listed once per multiset of rows (in the order of Universe).
ChainIndexes ==
    {s \in UNION {[1 .. k -> 1 .. Len(Universe)] : k \in 0 .. MaxContracts} :
        \A j \in 1 .. (Len(s) - 1) : s[j] <= s[j + 1]}

Chains == {[j \in DOMAIN s |-> Universe[s[j]]] : s \in ChainIndexes}

SpotPrices == {Frac(295, 2)}

LastTradeDates == {9}

\* (pct_from, pct_to): the defaults of line 171, an empty range and a
\* reversed range.
PctPairs ==
    { <<Frac(4, 5), Frac(6, 5)>>, <<Int2Num(1), Int2Num(1)>>, <<Frac(6, 5), Frac(4, 5)>> }

\* Arguments of a direct call of calc_gamma and of the calc_gamma_exposure
\* functions.
PriceArgs ==
    [S : {Int2Num(150), Frac(295, 2)}, K : {Int2Num(160), Int2Num(-160)},
     vol : {Zero, Frac(1, 5)}, T : {Zero, Frac(1, 262), Frac(7, 262)},
     r : {Zero, Frac(1, 20)}, q : {Zero, Frac(1, 50)},
     option_type : {"call", "put"}, open_interest : {Int2Num(1000)}]

NoPriceArgs ==
    [S |-> NaN, K |-> NaN, vol |-> NaN, T |-> NaN, r |-> NaN, q |-> NaN,
     option_type |-> "none", open_interest |-> NaN]

NoPriceResult ==
    [gamma |-> NaN, exposure |-> NaN, shares |-> NaN, theoretical |-> NaN]

\* The update runs of a behaviour.
MaxRuns == 3

\* The five collections, without documents.
NoDocuments ==
    [uploads |-> <<>>, quote_info |-> <<>>, gex_profile |-> <<>>, gex_zero |-> <<>>,
     gex_strikes |-> <<>>]

\* No run under way: no uploads document, so no '_id'.
NoResponse == [_id |-> 0]

\* The exceptions calculate_gamma_profile raises (lines 237 and 202 of
\* gamma_exposure.py).
ProfileErrors == {"IndexError", "ValueError"}

NoProfile ==
    [index |-> <<>>, all |-> <<>>, ex_next |-> <<>>, ex_next_monthly |-> <<>>]

(***************************************************************************)
(* State                                                                   *)
(***************************************************************************)
VARIABLES
    entry,                \* the function the caller calls
    pc,                   \* where the call is: at its entry, "sweep", "flip",
                          \* a step of the update run, "returned" or "raised"
    error,                \* the exception a raised call ended with, or "none"
    option_chain_long,    \* the caller's DataFrame: a sequence of rows
    spot_price, last_trade_date, pct_from, pct_to,
    levels, next_expiry, next_monthly_exp,
    option_chain_copy,    \* line 199
    i,                    \* levels swept so far
    total_gamma, total_gamma_ex_next, total_gamma_ex_fri,
    gamma_profile, zero_gamma,
    gamma_strikes,        \* the aggregator's table: strike -> row of 9 columns
    price_args, price_result,
    dates_arg,            \* the dates is_third_friday is called on, in order
    third_friday_flags,   \* its results, in the same order
    mongo,                \* the MongoDB collections: name -> documents in
                          \* order of insertion
    id_table,             \* the rows of the SQL table of IdTable
    response,             \* response_compressed of the update run under way
    runs,                 \* the update runs that have ended: upload id and
                          \* the exception the run ended with, or "none"
    object_ids            \* the ObjectIds MongoDB has issued

args == <<spot_price, last_trade_date, pct_from, pct_to>>

sweep == <<levels, next_expiry, next_monthly_exp, option_chain_copy, i,
           total_gamma, total_gamma_ex_next, total_gamma_ex_fri>>

results == <<gamma_profile, zero_gamma>>

pricing == <<price_args, price_result>>

calendar == <<dates_arg, third_friday_flags>>

database == <<mongo, id_table, response, runs, object_ids>>

vars == <<entry, pc, error, option_chain_long, args, sweep, results, gamma_strikes, pricing,
          calendar, database>>

InitLocals ==
    /\ error = "none"
    /\ levels = <<>>
    /\ next_expiry = NaT
    /\ next_monthly_exp = NaT
    /\ option_chain_copy = <<>>
    /\ i = 0
    /\ total_gamma = <<>>
    /\ total_gamma_ex_next = <<>>
    /\ total_gamma_ex_fri = <<>>
    /\ gamma_profile = NoProfile
    /\ zero_gamma = NaN
    /\ gamma_strikes = <<>>
    /\ price_result = NoPriceResult
    /\ third_friday_flags = <<>>
    /\ mongo = NoDocuments
    /\ id_table = <<>>
    /\ response = NoResponse
    /\ runs = <<>>
    /\ object_ids = 0

\* A caller about to call one of the entry points with its arguments.
Init ==
    /\ InitLocals
    /\ \/ /\ entry = "calculate_gamma_profile"
          /\ option_chain_long \in Chains
          /\ \E p \in PctPairs : pct_from = p[1] /\ pct_to = p[2]
          /\ price_args = NoPriceArgs
          /\ dates_arg = <<>>
       \/ /\ entry = "calculate_spot_total_gamma_call_puts"
          /\ option_chain_long \in Chains
          /\ pct_from = Frac(4, 5)
          /\ pct_to = Frac(6, 5)
          /\ price_args = NoPriceArgs
          /\ dates_arg = <<>>
       \/ /\ entry = "calc_gamma_exposure"
          /\ option_chain_long = <<>>
          /\ pct_from = Frac(4, 5)
          /\ pct_to = Frac(6, 5)
          /\ price_args \in PriceArgs
          /\ dates_arg = <<>>
       \/ /\ entry = "is_third_friday"
          /\ option_chain_long = <<>>
          /\ pct_from = Frac(4, 5)
          /\ pct_to = Frac(6, 5)
          /\ price_args = NoPriceArgs
          /\ \E m \in Months : dates_arg = MonthDates(m)
       \/ /\ entry = "update_database"
          /\ option_chain_long = <<>>
          /\ pct_from = Frac(4, 5)
          /\ pct_to = Frac(6, 5)
          /\ price_args = NoPriceArgs
          /\ dates_arg = <<>>
    /\ pc = entry
    /\ spot_price \in SpotPrices
    /\ last_trade_date \in LastTradeDates

(***************************************************************************)
(* DataFrame helpers                                                       *)
(***************************************************************************)
\* Series.sum() and groupby(...).sum(): NaN entries are skipped, and the sum
\* of nothing is 0.  fn is a function on the finite set S.
RECURSIVE SumSkipNa(_, _)
SumSkipNa(S, fn) ==
    IF S = {} THEN Zero
    ELSE LET x == CHOOSE y \in S : TRUE
             rest == SumSkipNa(S \ {x}, fn)
         IN  IF IsNaN(fn[x]) THEN rest ELSE Add(fn[x], rest)

\* frame[col].sum() over the rows of the given option type.
column_sum(frame, option_type, col) ==
    LET rows == {k \in DOMAIN frame : frame[k].optionType = option_type}
    IN  SumSkipNa(rows, [k \in rows |-> frame[k][col]])

\* Series.min() of the expiration column; NaT for an empty column.
min_expiration(frame) ==
    IF frame = <<>> THEN NaT
    ELSE CHOOSE x \in {frame[k].expiration : k \in DOMAIN frame} :
             \A k \in DOMAIN frame : x <= frame[k].expiration

\* frame.loc[mask]: the rows that satisfy keep, in order.
RECURSIVE loc(_, _)
loc(frame, keep) ==
    IF frame = <<>> THEN <<>>
    ELSE IF keep[1] THEN <<Head(frame)>> \o loc(Tail(frame), Tail(keep))
    ELSE loc(Tail(frame), Tail(keep))

\* frame[col] = values: the column is added, or replaced when present.  The
\* result is the sequence of the rows, each computed once.
set_column(frame, col, values) ==
    [k \in DOMAIN frame |-> (col :> values[k]) @@ frame[k]] \o <<>>

RECURSIVE SortedSeq(_)
SortedSeq(S) ==
    IF S = {} THEN <<>>
    ELSE LET m == CHOOSE x \in S : \A y \in S : x <= y
         IN  <<m>> \o SortedSeq(S \ {m})

(***************************************************************************)
(* calculate_gamma_profile                                                 *)
(***************************************************************************)
\* np.linspace(start, stop, num): num points, start first and stop last.
linspace(start, stop, num) ==
    [k \in 1 .. num |->
        IF k = num THEN stop
        ELSE Add(start, Mul(Int2Num(k - 1), Div(Sub(stop, start), Int2Num(num - 1))))]

\* Lines 184-185 without the clamp of a zero count to one day.
days_until_expiry_unclamped(begin, x) == Frac(busday_count(begin, x), 262)

\* Lines 184-185: 1/262 for a count of 0, otherwise count/262.
days_until_expiry(begin, x) ==
    IF busday_count(begin, x) = 0 THEN Frac(1, 262)
    ELSE Frac(busday_count(begin, x), 262)

\* Lines 178-199: the levels, the two added columns, the two expirations to
\* leave out and the copy of the frame.  Both columns are set on the caller's
\* frame.
calculate_gamma_profile_setup ==
    /\ pc = "calculate_gamma_profile"
    /\ LET from_strike == Mul(pct_from, spot_price)
           to_strike == Mul(pct_to, spot_price)
           with_dte == set_column(option_chain_long, "Days untill Expiry",
                          [k \in DOMAIN option_chain_long |->
                              days_until_expiry(last_trade_date,
                                                option_chain_long[k].expiration)])
           with_fri == set_column(with_dte, "Is Third Friday",
                          [k \in DOMAIN with_dte |->
                              is_third_friday(with_dte[k].expiration)])
           third_fridays == loc(with_fri,
                          [k \in DOMAIN with_fri |-> with_fri[k]["Is Third Friday"]])
       IN  /\ levels' = linspace(from_strike, to_strike, NumLevels)
           /\ option_chain_long' = with_fri
           /\ next_expiry' = min_expiration(with_dte)
           /\ next_monthly_exp' = min_expiration(third_fridays)
           /\ option_chain_copy' = with_fri
    /\ i' = 0
    /\ total_gamma' = <<>>
    /\ total_gamma_ex_next' = <<>>
    /\ total_gamma_ex_fri' = <<>>
    /\ pc' = "sweep"
    /\ UNCHANGED <<entry, error, args, results, gamma_strikes, pricing, calendar, database>>

\* Lines 202-203 adding the level's exposure to the column the level before
\* left on the copy, where line 202 replaces the column.
level_exposure_accumulating(frame, level) ==
    set_column(frame, "gammaExposure",
        [k \in DOMAIN frame |->
            IF "gammaExposure" \in DOMAIN frame[k]
            THEN Add(frame[k]["gammaExposure"],
                     calc_gamma_exposure(level, frame[k].strike,
                         frame[k].impliedVolatility, frame[k]["Days untill Expiry"],
                         Zero, Zero, frame[k].optionType, frame[k].openInterest))
            ELSE calc_gamma_exposure(level, frame[k].strike,
                     frame[k].impliedVolatility, frame[k]["Days untill Expiry"],
                     Zero, Zero, frame[k].optionType, frame[k].openInterest)])

\* Lines 202-203: the gammaExposure column of the copy at one level, r = q = 0.
level_exposure(frame, level) ==
    set_column(frame, "gammaExposure",
        [k \in DOMAIN frame |->
            calc_gamma_exposure(level, frame[k].strike, frame[k].impliedVolatility,
                                frame[k]["Days untill Expiry"], Zero, Zero,
                                frame[k].optionType, frame[k].openInterest)])

\* Lines 205-208 with the puts' sum added to the calls' sum.
call_plus_put(frame) ==
    Add(column_sum(frame, "call", "gammaExposure"),
        column_sum(frame, "put", "gammaExposure"))

\* Lines 205-208, 211-214, 217-219: calls' sum minus puts' sum.
call_minus_put(frame) ==
    Sub(column_sum(frame, "call", "gammaExposure"),
        column_sum(frame, "put", "gammaExposure"))

\* The filter of lines 210 and 216 with a comparison that is false on every
\* row when exp is NaT.
expiration_not_nat_false(frame, exp) ==
    IF exp = NaT THEN <<>>
    ELSE loc(frame, [k \in DOMAIN frame |-> frame[k].expiration # exp])

\* frame.loc[frame['expiration'] == exp]: the filter of lines 210 and 216
\* with the comparison turned round.
expiration_is(frame, exp) ==
    loc(frame, [k \in DOMAIN frame |-> frame[k].expiration = exp])

\* frame.loc[frame['expiration'] != exp]; NaT differs from every date.
expiration_not(frame, exp) ==
    loc(frame, [k \in DOMAIN frame |-> frame[k].expiration # exp])

\* Lines 201-221: one pass of the loop.
calculate_gamma_profile_level ==
    /\ pc = "sweep"
    /\ i < NumLevels
    /\ option_chain_copy' = level_exposure(option_chain_copy, levels[i + 1])
    /\ total_gamma' = Append(total_gamma, call_minus_put(option_chain_copy'))
    /\ total_gamma_ex_next' =
           Append(total_gamma_ex_next,
                  call_minus_put(expiration_not(option_chain_copy', next_expiry)))
    /\ total_gamma_ex_fri' =
           Append(total_gamma_ex_fri,
                  call_minus_put(expiration_not(option_chain_copy', next_monthly_exp)))
    /\ i' = i + 1
    /\ pc' = IF i + 1 = NumLevels THEN "flip" ELSE "sweep"
    /\ UNCHANGED <<entry, error, option_chain_long, args, levels, next_expiry,
                   next_monthly_exp, results, gamma_strikes, pricing, calendar, database>>

\* Line 202 on a frame without rows: DataFrame.apply returns, by pandas
\* version, an empty Series (the loop goes on) or an empty DataFrame, which the
\* assignment to one column rejects.
calculate_gamma_profile_apply_empty ==
    /\ pc = "sweep"
    /\ i < NumLevels
    /\ option_chain_copy = <<>>
    /\ pc' = "raised"
    /\ error' = "ValueError"
    /\ UNCHANGED <<entry, option_chain_long, args, sweep, results, gamma_strikes, pricing,
                   calendar, database>>

\* Lines 224-226: np.array(values) / 10**9.
in_billions(values) == [k \in DOMAIN values |-> Div(values[k], Int2Num(Billion))]

\* Line 229 flagging only the pairs of a negative and a positive value.
zero_cross_idx_strict(curve) ==
    SortedSeq({k \in 1 .. (Len(curve) - 1) : Sign(curve[k + 1]) * Sign(curve[k]) = -1})

\* Line 229: np.where(np.diff(np.sign(curve)))[0], as positions 1 .. n-1.
zero_cross_idx(curve) ==
    SortedSeq({k \in 1 .. (Len(curve) - 1) : Sign(curve[k + 1]) - Sign(curve[k]) # 0})

\* Line 236 measuring the step back from neg_strike instead of pos_strike.
interpolate_from_neg(neg_strike, neg_gamma, pos_strike, pos_gamma) ==
    Sub(neg_strike,
        Mul(Sub(pos_strike, neg_strike), Div(pos_gamma, Sub(pos_gamma, neg_gamma))))

\* Line 236 with neg_strike and pos_strike exchanged in the difference.
interpolate_swapped(neg_strike, neg_gamma, pos_strike, pos_gamma) ==
    Sub(pos_strike,
        Mul(Sub(neg_strike, pos_strike), Div(pos_gamma, Sub(pos_gamma, neg_gamma))))

\* Line 236.
interpolate(neg_strike, neg_gamma, pos_strike, pos_gamma) ==
    Sub(pos_strike,
        Mul(Sub(pos_strike, neg_strike), Div(pos_gamma, Sub(pos_gamma, neg_gamma))))

\* Lines 229-236: one interpolated level per sign change, lowest first.
zero_gamma_array(lv, curve) ==
    LET idx == zero_cross_idx(curve)
    IN  [j \in 1 .. Len(idx) |->
            interpolate(lv[idx[j]], curve[idx[j]], lv[idx[j] + 1], curve[idx[j] + 1])]

\* Lines 224-248: scaling, the zero-gamma lookup and the returned pair.
\* Line 237 takes element 0 of the interpolated levels and raises IndexError
\* when there is none.
calculate_gamma_profile_finish ==
    /\ pc = "flip"
    /\ IF zero_cross_idx(in_billions(total_gamma)) = <<>>
       THEN /\ pc' = "raised"
            /\ error' = "IndexError"
            /\ UNCHANGED results
       ELSE /\ pc' = "returned"
            /\ gamma_profile' =
                   [index |-> levels, all |-> in_billions(total_gamma),
                    ex_next |-> in_billions(total_gamma_ex_next),
                    ex_next_monthly |-> in_billions(total_gamma_ex_fri)]
            /\ zero_gamma' = zero_gamma_array(levels, gamma_profile'.all)[1]
            /\ UNCHANGED error
    /\ UNCHANGED <<entry, option_chain_long, args, sweep, gamma_strikes, pricing, calendar, database>>

(***************************************************************************)
(* calculate_spot_total_gamma_call_puts                                    *)
(***************************************************************************)
\* Lines 67-69 and 81: gamma * openInterest, negated on put rows.
row_exposure_theoretical(row) ==
    LET x == Mul(row.gamma, row.openInterest)
    IN  IF row.optionType = "put" THEN Mul(x, Int2Num(-1)) ELSE x

\* Lines 71-73 and 80: gamma * openInterest * 100 * spot_price, negated on
\* put rows.
row_exposure_shares(row, spot) ==
    LET x == Mul(Mul(Mul(row.gamma, row.openInterest), Int2Num(100)), spot)
    IN  IF row.optionType = "put" THEN Mul(x, Int2Num(-1)) ELSE x

\* Lines 75-77 without the negation of line 79 on put rows.
row_exposure_unsigned(row, spot) ==
    Mul(Mul(Mul(Mul(row.gamma, row.openInterest), Int2Num(100)), Mul(spot, spot)),
        Frac(1, 100))

\* Lines 75-77 and 79: gamma * openInterest * 100 * spot_price**2 * 0.01,
\* negated on put rows.
row_exposure(row, spot) ==
    LET x == Mul(Mul(Mul(Mul(row.gamma, row.openInterest), Int2Num(100)),
                     Mul(spot, spot)), Frac(1, 100))
    IN  IF row.optionType = "put" THEN Mul(x, Int2Num(-1)) ELSE x

\* Lines 65-81: the three columns set on the caller's frame.
exposure_columns(frame, spot) ==
    set_column(
        set_column(
            set_column(frame, "gammaExposure_theoretical",
                [k \in DOMAIN frame |-> row_exposure_theoretical(frame[k])]),
            "gammaExposure_shares",
            [k \in DOMAIN frame |-> row_exposure_shares(frame[k], spot)]),
        "gammaExposure",
        [k \in DOMAIN frame |-> row_exposure(frame[k], spot)])

\* The index of a groupby: the distinct keys among the rows.
group_keys(frame) ==
    {<<frame[k].expiration, frame[k].optionType, frame[k].strike>> : k \in DOMAIN frame}

\* Lines 86-91: groupby(['expiration','optionType','strike']).sum().div(10**9).
grouped_sum(frame, col) ==
    [key \in group_keys(frame) |->
        LET rows == {k \in DOMAIN frame :
                        <<frame[k].expiration, frame[k].optionType, frame[k].strike>> = key}
        IN  Div(SumSkipNa(rows, [k \in rows |-> frame[k][col]]), Int2Num(Billion))]

\* Lines 93-99 keeping, per strike, the grouped sum of the latest expiration
\* (its put group when it has one) where the code adds the groups up.
total_by_strike_last(frame, col) ==
    LET groups == grouped_sum(frame, col)
    IN  [strike \in {key[3] : key \in DOMAIN groups} |->
            LET keys == {key \in DOMAIN groups : key[3] = strike}
                last == {key \in keys : \A other \in keys : other[1] <= key[1]}
            IN  groups[CHOOSE key \in last :
                           key[2] = "put" \/ \A other \in last : other[2] = "call"]]

\* Lines 93-99: the grouped sums added up again per strike.
total_by_strike(frame, col) ==
    LET groups == grouped_sum(frame, col)
    IN  [strike \in {key[3] : key \in DOMAIN groups} |->
            LET keys == {key \in DOMAIN groups : key[3] = strike}
            IN  SumSkipNa(keys, [key \in keys |-> groups[key]])]

\* Lines 133-140: one option type's rows summed per strike, / 10**9.
type_by_strike(frame, option_type, col) ==
    LET rows == {k \in DOMAIN frame : frame[k].optionType = option_type}
    IN  [strike \in {frame[k].strike : k \in rows} |->
            LET at == {k \in rows : frame[k].strike = strike}
            IN  Div(SumSkipNa(at, [k \in at |-> frame[k][col]]), Int2Num(Billion))]

\* pd.concat(axis=1): a strike missing from a column's index reads NaN.
cell(column, strike) == IF strike \in DOMAIN column THEN column[strike] ELSE NaN

\* The index of pd.concat(axis=1) with a strike added that no row has.
concat_index_extra(frame) == {frame[k].strike : k \in DOMAIN frame} \cup {Zero}

\* The index of a join on the call column alone: the strikes that have a call.
concat_index_calls(frame) ==
    {frame[k].strike : k \in {j \in DOMAIN frame : frame[j].optionType = "call"}}

\* The index of pd.concat(axis=1): the union of the nine indexes, which is the
\* set of strikes of the frame.
concat_index(frame) == {frame[k].strike : k \in DOMAIN frame}

\* Lines 86-166: the table, one row per strike of the concatenated index.
strikes_table(frame) ==
    [strike \in concat_index(frame) |->
        [total       |-> cell(total_by_strike(frame, "gammaExposure"), strike),
         call        |-> cell(type_by_strike(frame, "call", "gammaExposure"), strike),
         put         |-> cell(type_by_strike(frame, "put", "gammaExposure"), strike),
         share_total |-> cell(total_by_strike(frame, "gammaExposure_shares"), strike),
         share_call  |-> cell(type_by_strike(frame, "call", "gammaExposure_shares"), strike),
         share_put   |-> cell(type_by_strike(frame, "put", "gammaExposure_shares"), strike),
         theo_total  |-> cell(total_by_strike(frame, "gammaExposure_theoretical"), strike),
         theo_call   |-> cell(type_by_strike(frame, "call", "gammaExposure_theoretical"), strike),
         theo_put    |-> cell(type_by_strike(frame, "put", "gammaExposure_theoretical"), strike)]]

\* Lines 61-168.
calculate_spot_total_gamma_call_puts ==
    /\ pc = "calculate_spot_total_gamma_call_puts"
    /\ option_chain_long' = exposure_columns(option_chain_long, spot_price)
    /\ gamma_strikes' = strikes_table(option_chain_long')
    /\ pc' = "returned"
    /\ UNCHANGED <<entry, error, args, sweep, results, pricing, calendar, database>>

(***************************************************************************)
(* A direct call of calc_gamma and of the three exposure functions         *)
(***************************************************************************)
\* Lines 14-52.
calc_gamma_exposure_call ==
    /\ pc = "calc_gamma_exposure"
    /\ LET a == price_args
       IN  price_result' =
               [gamma |-> calc_gamma(a.S, a.K, a.vol, a.T, a.r, a.q, a.option_type),
                exposure |-> calc_gamma_exposure(a.S, a.K, a.vol, a.T, a.r, a.q,
                                                 a.option_type, a.open_interest),
                shares |-> calc_gamma_exposure_shares(a.S, a.K, a.vol, a.T, a.r, a.q,
                                                      a.option_type, a.open_interest),
                theoretical |-> calc_gamma_exposure_theoretical(a.S, a.K, a.vol, a.T, a.r,
                                                 a.q, a.option_type, a.open_interest)]
    /\ pc' = "returned"
    /\ UNCHANGED <<entry, error, option_chain_long, args, sweep, results,
                   gamma_strikes, price_args, calendar, database>>

(***************************************************************************)
(* is_third_friday called on each of a list of dates                       *)
(***************************************************************************)
\* Lines 56-57, applied date by date as line 189 applies it.
is_third_friday_call ==
    /\ pc = "is_third_friday"
    /\ third_friday_flags' = [k \in DOMAIN dates_arg |-> is_third_friday(dates_arg[k])]
    /\ pc' = "returned"
    /\ UNCHANGED <<entry, error, option_chain_long, args, sweep, results,
                   gamma_strikes, pricing, dates_arg, database>>

(***************************************************************************)
(* update_database (database.py) and update_db (main.py): one update run   *)
(***************************************************************************)
\* mongodb_upload_id = str(response['_id']): the key of the three gex
\* documents, keyed by the quote-info document's own id instead.
mongodb_upload_id_of_info(r) == r._id + 1

\* mongodb_upload_id = str(response['_id']), database.py lines 361 and 368.
mongodb_upload_id(r) == r._id

\* Where an update run is once calculate_gamma_profile has raised, with the
\* exception caught and the run going on.
after_profile_raises_continue == "store_gamma_profile_insert"

\* Where an update run is once calculate_gamma_profile has raised: neither
\* store_gamma_profile nor update_database catches, the run ends.
after_profile_raises == "raised"

\* database.py lines 70-131: the uploads document gets a new ObjectId, the
\* quote-info document another and the uploads id as mongodb_upload_id.
store_raw_option_chains ==
    /\ pc = "update_database"
    /\ LET upload_id == object_ids + 1
           info_id   == object_ids + 2
       IN  /\ mongo' = [mongo EXCEPT
                   !.uploads = Append(@, [_id |-> upload_id]),
                   !.quote_info = Append(@, [_id |-> info_id,
                                             mongodb_upload_id |-> upload_id])]
           /\ response' = [_id |-> upload_id]
           /\ object_ids' = info_id
    /\ pc' = "store_execution_details_sql"
    /\ UNCHANGED <<entry, error, option_chain_long, args, sweep, results, gamma_strikes,
                   pricing, calendar, id_table, runs>>

\* database.py lines 133-152: one row of IdTable with the uploads id.
store_execution_details_sql ==
    /\ pc = "store_execution_details_sql"
    /\ id_table' = Append(id_table, [id |-> Len(id_table) + 1, mongodb_id |-> response._id])
    /\ pc' = "get_quote_info_from_mongo"
    /\ UNCHANGED <<entry, error, option_chain_long, args, sweep, results, gamma_strikes,
                   pricing, calendar, mongo, response, runs, object_ids>>

\* database.py lines 242-260 and 347-350: find_one by mongodb_upload_id;
\* without a document the reads of 'close' raise.
get_quote_info_from_mongo ==
    /\ pc = "get_quote_info_from_mongo"
    /\ IF \E k \in DOMAIN mongo.quote_info :
              mongo.quote_info[k].mongodb_upload_id = response._id
       THEN pc' = "store_gamma_profile" /\ UNCHANGED error
       ELSE pc' = "raised" /\ error' = "KeyError"
    /\ UNCHANGED <<entry, option_chain_long, args, sweep, results, gamma_strikes,
                   pricing, calendar, database>>

\* database.py lines 156-168: calculate_gamma_profile on the chain fetched
\* from storage returns or raises, by the chain.
store_gamma_profile_calculate ==
    /\ pc = "store_gamma_profile"
    /\ \/ pc' = "store_gamma_profile_insert" /\ UNCHANGED error
       \/ \E e \in ProfileErrors : pc' = after_profile_raises /\ error' = e
    /\ UNCHANGED <<entry, option_chain_long, args, sweep, results, gamma_strikes,
                   pricing, calendar, database>>

\* database.py lines 173-187: the gex_profile document.
store_gamma_profile_insert ==
    /\ pc = "store_gamma_profile_insert"
    /\ mongo' = [mongo EXCEPT
            !.gex_profile = Append(@, [_id |-> object_ids + 1,
                                       key |-> mongodb_upload_id(response)])]
    /\ object_ids' = object_ids + 1
    /\ pc' = "store_gamma_profile_insert_zero"
    /\ UNCHANGED <<entry, error, option_chain_long, args, sweep, results, gamma_strikes,
                   pricing, calendar, id_table, response, runs>>

\* database.py lines 189-194: the gex_zero document.
store_gamma_profile_insert_zero ==
    /\ pc = "store_gamma_profile_insert_zero"
    /\ mongo' = [mongo EXCEPT
            !.gex_zero = Append(@, [_id |-> object_ids + 1,
                                    key |-> mongodb_upload_id(response)])]
    /\ object_ids' = object_ids + 1
    /\ pc' = "store_total_gamma"
    /\ UNCHANGED <<entry, error, option_chain_long, args, sweep, results, gamma_strikes,
                   pricing, calendar, id_table, response, runs>>

\* database.py lines 197-219: the gex_strikes document; the run returns.
store_total_gamma ==
    /\ pc = "store_total_gamma"
    /\ mongo' = [mongo EXCEPT
            !.gex_strikes = Append(@, [_id |-> object_ids + 1,
                                       key |-> mongodb_upload_id(response)])]
    /\ object_ids' = object_ids + 1
    /\ pc' = "returned"
    /\ UNCHANGED <<entry, error, option_chain_long, args, sweep, results, gamma_strikes,
                   pricing, calendar, id_table, response, runs>>

\* main.py lines 111-135: the next request of /update_db, once the run
\* before it has returned or raised.
update_db ==
    /\ entry = "update_database"
    /\ pc \in {"returned", "raised"}
    /\ Len(runs) + 1 < MaxRuns
    /\ runs' = Append(runs, [upload_id |-> response._id, error |-> error])
    /\ response' = NoResponse
    /\ error' = "none"
    /\ pc' = "update_database"
    /\ UNCHANGED <<entry, option_chain_long, args, sweep, results, gamma_strikes,
                   pricing, calendar, mongo, id_table, object_ids>>

Next ==
    \/ calculate_gamma_profile_setup
    \/ calculate_gamma_profile_level
    \/ calculate_gamma_profile_apply_empty
    \/ calculate_gamma_profile_finish
    \/ calculate_spot_total_gamma_call_puts
    \/ calc_gamma_exposure_call
    \/ is_third_friday_call
    \/ store_raw_option_chains
    \/ store_execution_details_sql
    \/ get_quote_info_from_mongo
    \/ store_gamma_profile_calculate
    \/ store_gamma_profile_insert
    \/ store_gamma_profile_insert_zero
    \/ store_total_gamma
    \/ update_db

Spec == Init /\ [][Next]_vars

(***************************************************************************)
(* Properties                                                              *)
(***************************************************************************)
ProfileCalled == entry = "calculate_gamma_profile"

StrikesCalled == entry = "calculate_spot_total_gamma_call_puts"

PriceCalled == entry = "calc_gamma_exposure"

\* The call has ended, by a return or by an exception.
Ended == pc \in {"returned", "raised"}

\* The sweep has run through all its levels.
SweepComplete == ProfileCalled /\ Len(total_gamma) = NumLevels /\ pc # "flip"

AllPositive(curve) == \A k \in DOMAIN curve : Sign(curve[k]) = 1

AllNegative(curve) == \A k \in DOMAIN curve : Sign(curve[k]) = -1

\* C1: when netGammaAll is all positive or all negative, the zero-gamma
\* lookup ends with an outcome of its own (the call returns) and never with an
\* index fault.
C1_NoCrossingIsReported ==
    (SweepComplete /\ Ended
        /\ (AllPositive(total_gamma) \/ AllNegative(total_gamma)))
    => (pc = "returned" /\ error # "IndexError")

\* The adjacent pair k, k+1 of the curve has one negative and one positive
\* value.
StrictCrossing(curve, k) == Sign(curve[k]) * Sign(curve[k + 1]) = -1

\* levelPos - (levelPos - levelNeg) * gammaPos / (gammaPos - gammaNeg), with
\* the negative point of the pair k, k+1 as (levelNeg, gammaNeg).
ZeroBetween(lv, curve, k) ==
    LET neg == IF Sign(curve[k]) < 0 THEN k ELSE k + 1
        pos == IF Sign(curve[k]) < 0 THEN k + 1 ELSE k
    IN  Sub(lv[pos],
            Div(Mul(Sub(lv[pos], lv[neg]), curve[pos]), Sub(curve[pos], curve[neg])))

\* On the curve [(100, -2), (110, 3)] the lookup gives 104.
InterpolationExample ==
    zero_gamma_array(<<Int2Num(100), Int2Num(110)>>, <<Int2Num(-2), Int2Num(3)>>)
        = <<Int2Num(104)>>

\* C2: every level the lookup interpolates at a negative/positive pair is
\* levelPos - (levelPos - levelNeg) * gammaPos / (gammaPos - gammaNeg),
\* whichever of the two points is the negative one, and so is the returned
\* level when the first sign change is such a pair; on the curve
\* [(100, -2), (110, 3)] the lookup gives 104.
C2_InterpolationFormula ==
    /\ InterpolationExample
    /\ (ProfileCalled /\ pc = "returned") =>
          LET lv    == gamma_profile.index
              curve == gamma_profile.all
          IN  \A idx \in {zero_cross_idx(curve)} :
              \A found \in {zero_gamma_array(lv, curve)} :
                  /\ \A j \in DOMAIN idx :
                        StrictCrossing(curve, idx[j]) =>
                            found[j] = ZeroBetween(lv, curve, idx[j])
                  /\ StrictCrossing(curve, idx[1]) =>
                        zero_gamma = ZeroBetween(lv, curve, idx[1])

\* A returned profile over an ascending range whose first sign change runs
\* from positive to negative.
C2_Witness ==
    /\ ProfileCalled /\ pc = "returned"
    /\ Lt(pct_from, pct_to)
    /\ LET curve == gamma_profile.all
           first == zero_cross_idx(curve)[1]
       IN  Sign(curve[first]) = 1 /\ Sign(curve[first + 1]) = -1

\* C3: a returned profile has exactly NumLevels points, evenly spaced and
\* strictly ascending in spot level, from pct_from * spot_price to
\* pct_to * spot_price.
C3_ProfileShape ==
    (ProfileCalled /\ pc = "returned") =>
        LET lv == gamma_profile.index
        IN  /\ Len(lv) = NumLevels
            /\ Len(gamma_profile.all) = NumLevels
            /\ Len(gamma_profile.ex_next) = NumLevels
            /\ Len(gamma_profile.ex_next_monthly) = NumLevels
            /\ \A k \in 1 .. (Len(lv) - 1) : Lt(lv[k], lv[k + 1])
            /\ \A k \in 1 .. (Len(lv) - 2) :
                   Eq(Sub(lv[k + 1], lv[k]), Sub(lv[k + 2], lv[k + 1]))
            /\ Eq(lv[1], Mul(pct_from, spot_price))
            /\ Eq(lv[Len(lv)], Mul(pct_to, spot_price))

\* A row with a negative strike or a negative open interest.
InvalidRow(row) == row.strike.n < 0 \/ row.openInterest.n < 0

InvalidChain == \E k \in DOMAIN option_chain_long : InvalidRow(option_chain_long[k])

\* C4: with pct_from >= pct_to, or a negative strike or open interest in the
\* chain, the profile call ends in a validation error before any level is
\* computed, and the aggregator does not return a table for such a chain.
C4_InvalidParametersRejected ==
    /\ (ProfileCalled /\ (~Lt(pct_from, pct_to) \/ InvalidChain)) =>
          /\ pc \in {"calculate_gamma_profile", "raised"}
          /\ i = 0
          /\ pc = "raised" => error = "ValidationError"
    /\ (StrikesCalled /\ InvalidChain) => pc # "returned"

\* C5: the profile call on a chain without rows returns, with empty outputs,
\* and does not raise.
C5_EmptyChainProfile ==
    (ProfileCalled /\ option_chain_long = <<>> /\ Ended) =>
        /\ pc = "returned"
        /\ error = "none"
        /\ gamma_profile.all = <<>>

\* C6: the aggregator on a chain without rows returns a table without rows and
\* does not raise.
C6_EmptyChainEmptyTable ==
    (StrikesCalled /\ option_chain_long = <<>> /\ pc # "calculate_spot_total_gamma_call_puts") =>
        /\ pc = "returned"
        /\ error = "none"
        /\ DOMAIN gamma_strikes = {}

\* The aggregator has returned for a chain without rows.
C6_Witness == StrikesCalled /\ option_chain_long = <<>> /\ pc = "returned"

\* C7: in every row of the per-strike table, in each unit system, the total
\* equals the call column plus the put column.
C7_TotalIsCallPlusPut ==
    (StrikesCalled /\ pc = "returned") =>
        \A strike \in DOMAIN gamma_strikes :
            LET row == gamma_strikes[strike]
            IN  /\ Eq(row.total, Add(row.call, row.put))
                /\ Eq(row.share_total, Add(row.share_call, row.share_put))
                /\ Eq(row.theo_total, Add(row.theo_call, row.theo_put))

\* C8: on every row of the chain the aggregator's three exposures are the
\* conversions of calc_gamma_exposure, calc_gamma_exposure_shares and
\* calc_gamma_exposure_theoretical applied to the row's gamma, the spot price
\* and the row's open interest (with the sign of the option type).
C8_AggregatorUsesConversions ==
    (StrikesCalled /\ pc = "returned") =>
        \A k \in DOMAIN option_chain_long :
            LET row  == option_chain_long[k]
                sign == IF row.optionType = "put" THEN Int2Num(-1) ELSE Int2Num(1)
            IN  /\ Eq(row["gammaExposure"],
                      Mul(sign, gamma_exposure(row.openInterest, spot_price, row.gamma)))
                /\ Eq(row["gammaExposure_shares"],
                      Mul(sign, gamma_exposure_shares(row.openInterest, spot_price, row.gamma)))
                /\ Eq(row["gammaExposure_theoretical"],
                      Mul(sign, gamma_exposure_theoretical(row.openInterest, row.gamma)))

\* C9: a direct call of calc_gamma with T == 0 or vol == 0 returns exactly 0,
\* whatever the other arguments and the option type: no NaN of a division by
\* zero comes back.
C9_DegenerateGammaIsZero ==
    (PriceCalled /\ pc = "returned"
        /\ (Eq(price_args.T, Zero) \/ Eq(price_args.vol, Zero)))
    => price_result.gamma = Zero

\* A returned direct call with T == 0 and a non-zero volatility.
C9_Witness ==
    /\ PriceCalled /\ pc = "returned"
    /\ Eq(price_args.T, Zero) /\ ~Eq(price_args.vol, Zero)

\* C10: in the sweep every row's time to expiry is 1/262 for 0 business days
\* between last_trade_date and its expiration and businessDays/262 otherwise,
\* so that no row expiring on or after last_trade_date is priced with T = 0;
\* calc_gamma called directly on the same row with T = 0 gives 0.
C10_ZeroDteClamp ==
    (ProfileCalled /\ pc # "calculate_gamma_profile") =>
        \A k \in DOMAIN option_chain_copy :
            LET row  == option_chain_copy[k]
                days == busday_count(last_trade_date, row.expiration)
                T    == row["Days untill Expiry"]
            IN  /\ days = 0 => T = Frac(1, 262)
                /\ days # 0 => T = Frac(days, 262)
                /\ row.expiration >= last_trade_date => ~Eq(T, Zero)
                /\ calc_gamma(levels[1], row.strike, row.impliedVolatility, Zero,
                              Zero, Zero, row.optionType) = Zero

\* The sweep has priced a level of a chain with a row expiring on the day of
\* last_trade_date.
C10_Witness ==
    /\ ProfileCalled /\ pc = "sweep" /\ i >= 1
    /\ \E k \in DOMAIN option_chain_copy :
           option_chain_copy[k].expiration = last_trade_date

\* C11: no step of calculate_spot_total_gamma_call_puts or of
\* calculate_gamma_profile changes the caller's option chain: it keeps its
\* columns and its values.
C11_CallerChainUnchanged == [][option_chain_long' = option_chain_long]_vars

\* C12: the returned zero-gamma level is the interpolation at the sign change
\* with the lowest spot level, whatever other sign changes the curve has.
C12_LowestCrossingOnly ==
    (ProfileCalled /\ pc = "returned") =>
        LET lv    == gamma_profile.index
            curve == gamma_profile.all
            idx   == zero_cross_idx(curve)
            low   == CHOOSE j \in DOMAIN idx :
                         \A m \in DOMAIN idx : ~Lt(lv[idx[m]], lv[idx[j]])
        IN  zero_gamma = interpolate(lv[idx[low]], curve[idx[low]],
                                     lv[idx[low] + 1], curve[idx[low] + 1])

\* A returned profile with more than one sign change.
SeveralCrossings ==
    ProfileCalled /\ pc = "returned" /\ Len(zero_cross_idx(gamma_profile.all)) >= 2

\* C13: after the aggregator, each of the three exposures of a put row is the
\* negation of the magnitude computed from the row (negated once, not twice),
\* and each of the three exposures of a call row with gamma >= 0 and
\* openInterest >= 0 is >= 0.
C13_PutNegatedCallNonNegative ==
    (StrikesCalled /\ pc = "returned") =>
        \A k \in DOMAIN option_chain_long :
            LET row  == option_chain_long[k]
                theo == Mul(row.gamma, row.openInterest)
                shar == Mul(Mul(theo, Int2Num(100)), spot_price)
                noti == Mul(Mul(Mul(theo, Int2Num(100)), Mul(spot_price, spot_price)),
                            Frac(1, 100))
            IN  /\ row.optionType = "put" =>
                      /\ row["gammaExposure_theoretical"] = Neg(theo)
                      /\ row["gammaExposure_shares"] = Neg(shar)
                      /\ row["gammaExposure"] = Neg(noti)
                /\ (row.optionType = "call" /\ Sign(row.gamma) >= 0
                        /\ Sign(row.openInterest) >= 0) =>
                      /\ Sign(row["gammaExposure_theoretical"]) >= 0
                      /\ Sign(row["gammaExposure_shares"]) >= 0
                      /\ Sign(row["gammaExposure"]) >= 0

\* The aggregator has returned for a chain with a put row and a call row of
\* non-zero exposure.
C13_Witness ==
    /\ StrikesCalled /\ pc = "returned"
    /\ \E k \in DOMAIN option_chain_long :
           /\ option_chain_long[k].optionType = "put"
           /\ Sign(option_chain_long[k]["gammaExposure"]) = -1
    /\ \E k \in DOMAIN option_chain_long :
           /\ option_chain_long[k].optionType = "call"
           /\ Sign(option_chain_long[k]["gammaExposure"]) = 1

\* The nine columns of the per-strike table.
TableColumns ==
    {"total", "call", "put", "share_total", "share_call", "share_put",
     "theo_total", "theo_call", "theo_put"}

\* C14: the per-strike table has one row for each distinct strike of the
\* chain, none missing and none twice, and each row has the nine columns
\* {total, call, put} x {notional, share, theoretical}, every cell a number.
C14_OneRowPerStrike ==
    (StrikesCalled /\ pc = "returned") =>
        LET strikes == {option_chain_long[k].strike : k \in DOMAIN option_chain_long}
        IN  /\ DOMAIN gamma_strikes = strikes
            /\ Cardinality(DOMAIN gamma_strikes) = Cardinality(strikes)
            /\ \A strike \in DOMAIN gamma_strikes :
                   /\ DOMAIN gamma_strikes[strike] = TableColumns
                   /\ \A col \in TableColumns :
                          DOMAIN gamma_strikes[strike][col] = {"n", "d", "e"}

\* The aggregator has returned one row for a chain with two contracts at the
\* same strike, a call and a put.
C14_Witness ==
    /\ StrikesCalled /\ pc = "returned"
    /\ Len(option_chain_long) = 2
    /\ option_chain_long[1].strike = option_chain_long[2].strike
    /\ option_chain_long[1].optionType # option_chain_long[2].optionType
    /\ Cardinality(DOMAIN gamma_strikes) = 1

\* The sweep has appended all its levels to the three lists.
CurveSwept == ProfileCalled /\ Len(total_gamma) = NumLevels

\* A zero before a non-zero value and a zero after one are crossings, two
\* zeros side by side are not.
CrossingExamples ==
    /\ zero_cross_idx(<<Zero, Int2Num(3)>>) = <<1>>
    /\ zero_cross_idx(<<Int2Num(-2), Zero>>) = <<1>>
    /\ zero_cross_idx(<<Zero, Zero>>) = <<>>

\* C15: position k of the curve is flagged as a crossing exactly when
\* sign(curve[k]) differs from sign(curve[k+1]), sign being -1, 0 or +1: a zero
\* next to a non-zero value is a crossing, two zeros are not.
C15_CrossingIffSignDiffers ==
    /\ CrossingExamples
    /\ CurveSwept =>
          \A curve \in {in_billions(total_gamma) \o <<>>} :
          \A idx \in {zero_cross_idx(curve)} :
              /\ \A k \in DOMAIN curve : Sign(curve[k]) \in {-1, 0, 1}
              /\ \A k \in 1 .. (Len(curve) - 1) :
                     (\E j \in DOMAIN idx : idx[j] = k)
                         <=> Sign(curve[k]) # Sign(curve[k + 1])
              /\ \A j \in 1 .. (Len(idx) - 1) : idx[j] < idx[j + 1]

\* A swept curve with a zero next to a non-zero value and with two zeros side
\* by side.
C15_Witness ==
    /\ CurveSwept
    /\ \E k \in 1 .. (NumLevels - 1) :
           Sign(total_gamma[k]) = 0 /\ Sign(total_gamma[k + 1]) # 0
    /\ \E k \in 1 .. (NumLevels - 1) :
           Sign(total_gamma[k]) = 0 /\ Sign(total_gamma[k + 1]) = 0

\* The rows of a frame that have the given option type.
RowsOfType(frame, option_type) ==
    {k \in DOMAIN frame : frame[k].optionType = option_type}

\* The sum of a column over a set of rows, as Series.sum() takes it.
SumOver(frame, rows, col) == SumSkipNa(rows, [k \in rows |-> frame[k][col]])

\* C16: at the level swept last, every contract's exposure is the notional
\* exposure openInterest * 100 * level^2 * 0.01 * gamma, gamma priced with the
\* level as spot and r = q = 0, and the value appended to total_gamma is the
\* sum over the calls minus the sum over the puts; the returned
\* 'Gamma Profile All' is total_gamma / 10^9, level by level.
C16_NetGammaAll ==
    /\ (ProfileCalled /\ i >= 1) =>
          LET frame == option_chain_copy
              level == levels[i]
          IN  /\ \A k \in DOMAIN frame :
                     frame[k]["gammaExposure"] =
                         gamma_exposure(frame[k].openInterest, level,
                             calc_gamma(level, frame[k].strike,
                                        frame[k].impliedVolatility,
                                        frame[k]["Days untill Expiry"], Zero, Zero,
                                        frame[k].optionType))
              /\ total_gamma[i] =
                     Sub(SumOver(frame, RowsOfType(frame, "call"), "gammaExposure"),
                         SumOver(frame, RowsOfType(frame, "put"), "gammaExposure"))
    /\ (ProfileCalled /\ pc = "returned") =>
          /\ Len(gamma_profile.all) = NumLevels
          /\ \A k \in 1 .. NumLevels :
                 gamma_profile.all[k] = Div(total_gamma[k], Int2Num(Billion))

\* A level has been swept at which a call and a put both have a positive
\* exposure.
C16_Witness ==
    /\ ProfileCalled /\ i >= 1
    /\ \E k \in RowsOfType(option_chain_copy, "call") :
           Sign(option_chain_copy[k]["gammaExposure"]) = 1
    /\ \E k \in RowsOfType(option_chain_copy, "put") :
           Sign(option_chain_copy[k]["gammaExposure"]) = 1

\* Calls' sum minus puts' sum of the gammaExposure column over a set of rows.
NetOver(frame, rows) ==
    Sub(SumOver(frame, rows \cap RowsOfType(frame, "call"), "gammaExposure"),
        SumOver(frame, rows \cap RowsOfType(frame, "put"), "gammaExposure"))

\* The rows whose expiration differs from the earliest date of a set of dates
\* (all rows when the set is empty).
RowsNotAtEarliest(frame, dates) ==
    {k \in DOMAIN frame :
        \A d \in dates : (\A x \in dates : d <= x) => frame[k].expiration # d}

\* C17: at the level swept last, the value appended to total_gamma_ex_next is
\* the call-minus-put sum over the contracts whose expiration differs from the
\* earliest expiration of the chain, and the value appended to
\* total_gamma_ex_fri is that sum over the contracts whose expiration differs
\* from the earliest expiration that falls on a Friday with day of month in
\* 15..21; the returned columns are these lists / 10^9.
C17_ExNextAndExMonthly ==
    /\ (ProfileCalled /\ i >= 1) =>
          LET frame   == option_chain_copy
              dates   == {frame[k].expiration : k \in DOMAIN frame}
              fridays == {d \in dates : weekday(d) = 4 /\ day(d) \in 15 .. 21}
          IN  /\ total_gamma_ex_next[i] =
                     NetOver(frame, RowsNotAtEarliest(frame, dates))
              /\ total_gamma_ex_fri[i] =
                     NetOver(frame, RowsNotAtEarliest(frame, fridays))
    /\ (ProfileCalled /\ pc = "returned") =>
          \A k \in 1 .. NumLevels :
              /\ gamma_profile.ex_next[k] = Div(total_gamma_ex_next[k], Int2Num(Billion))
              /\ gamma_profile.ex_next_monthly[k] =
                     Div(total_gamma_ex_fri[k], Int2Num(Billion))

\* A level has been swept of a chain whose earliest expiration is not its
\* earliest third Friday, with three different net values.
C17_Witness ==
    /\ ProfileCalled /\ i >= 1
    /\ next_expiry # NaT /\ next_monthly_exp # NaT /\ next_expiry # next_monthly_exp
    /\ total_gamma_ex_next[i] # total_gamma[i]
    /\ total_gamma_ex_fri[i] # total_gamma[i]
    /\ total_gamma_ex_next[i] # total_gamma_ex_fri[i]

\* The three values lines 208, 214 and 219 append for a frame that carries a
\* level's gammaExposure column.
PointOf(frame) ==
    << call_minus_put(frame),
       call_minus_put(expiration_not(frame, next_expiry)),
       call_minus_put(expiration_not(frame, next_monthly_exp)) >>

\* C18: the three values a pass of the loop records for its level are those
\* the level gives on the chain's attributes alone, with no level swept
\* before it; the values recorded before stay as they are; and the first
\* level swept again after all the others gives its recorded values: a
\* level's point does not depend on the levels swept before it.
C18_LevelsIndependent ==
    [][(ProfileCalled /\ pc = "sweep" /\ i' = i + 1) =>
          /\ \A fresh \in {level_exposure(option_chain_long, levels[i + 1])} :
                 PointOf(fresh) =
                     <<total_gamma'[i + 1], total_gamma_ex_next'[i + 1],
                       total_gamma_ex_fri'[i + 1]>>
          /\ SubSeq(total_gamma', 1, i) = total_gamma
          /\ SubSeq(total_gamma_ex_next', 1, i) = total_gamma_ex_next
          /\ SubSeq(total_gamma_ex_fri', 1, i) = total_gamma_ex_fri
          /\ pc' = "flip" =>
                 \A again \in {level_exposure(option_chain_copy', levels[1])} :
                     PointOf(again) =
                         <<total_gamma'[1], total_gamma_ex_next'[1],
                           total_gamma_ex_fri'[1]>>
      ]_vars

\* A sweep has ended whose curve is not constant.
C18_Witness ==
    /\ ProfileCalled /\ pc = "flip" /\ option_chain_copy # <<>>
    /\ \E k \in 2 .. NumLevels :
           /\ Sign(total_gamma[k]) # 0
           /\ Sign(total_gamma[k - 1]) # 0
           /\ total_gamma[k] # total_gamma[k - 1]

\* The rows of a frame at a strike.
RowsAtStrike(frame, strike) == {k \in DOMAIN frame : frame[k].strike = strike}

\* C19: in each unit system the total of a strike is the sum of the signed
\* exposures of all the chain's contracts at that strike, of every expiration
\* and both option types, divided by 10^9: summing per (expiration,
\* optionType, strike) and then per strike gives what one sum per strike gives.
C19_TotalIsOneSumPerStrike ==
    (StrikesCalled /\ pc = "returned") =>
        \A strike \in DOMAIN gamma_strikes :
            LET frame == option_chain_long
                rows  == RowsAtStrike(frame, strike)
                row   == gamma_strikes[strike]
            IN  /\ Eq(row.total,
                      Div(SumOver(frame, rows, "gammaExposure"), Int2Num(Billion)))
                /\ Eq(row.share_total,
                      Div(SumOver(frame, rows, "gammaExposure_shares"), Int2Num(Billion)))
                /\ Eq(row.theo_total,
                      Div(SumOver(frame, rows, "gammaExposure_theoretical"),
                          Int2Num(Billion)))

\* The aggregator has returned for a chain with two contracts of non-zero
\* exposure at one strike, of different expirations.
C19_Witness ==
    /\ StrikesCalled /\ pc = "returned"
    /\ \E j, k \in DOMAIN option_chain_long :
           /\ option_chain_long[j].strike = option_chain_long[k].strike
           /\ option_chain_long[j].expiration # option_chain_long[k].expiration
           /\ Sign(option_chain_long[j]["gammaExposure"]) # 0
           /\ Sign(option_chain_long[k]["gammaExposure"]) # 0

\* The rows of a frame with impliedVolatility = 0, and the frame without them.
ZeroVolRows(frame) == {k \in DOMAIN frame : Eq(frame[k].impliedVolatility, Zero)}

WithoutZeroVol(frame) ==
    loc(frame, [k \in DOMAIN frame |-> ~Eq(frame[k].impliedVolatility, Zero)])

\* The earliest expiration and the earliest third-Friday expiration of the
\* frame are those the sweep of the whole chain leaves out.
SameExpirations(frame) ==
    /\ min_expiration(frame) = next_expiry
    /\ min_expiration(loc(frame, [k \in DOMAIN frame |->
                                     is_third_friday(frame[k].expiration)]))
           = next_monthly_exp

\* C20: in the sweep a contract with impliedVolatility = 0 has exposure
\* exactly 0 at every level and no level raises because of it; the three
\* values of every level are those of the chain without such contracts, when
\* that chain has the same earliest expiration and earliest third Friday.
C20_ZeroVolContributesNothing ==
    (ProfileCalled /\ ZeroVolRows(option_chain_copy) # {}) =>
        /\ i >= 1 =>
               \A k \in ZeroVolRows(option_chain_copy) :
                   option_chain_copy[k]["gammaExposure"] = Zero
        /\ pc = "raised" => (i = NumLevels /\ error = "IndexError")
        /\ (pc = "flip" /\ SameExpirations(WithoutZeroVol(option_chain_long))) =>
               \A k \in 1 .. NumLevels :
                   \A rest \in {level_exposure(WithoutZeroVol(option_chain_long),
                                               levels[k])} :
                       PointOf(rest) =
                           <<total_gamma[k], total_gamma_ex_next[k],
                             total_gamma_ex_fri[k]>>

\* A sweep has ended for a chain with a zero-volatility contract and another
\* contract, of the same earliest expirations without the first, whose curve
\* is not zero.
C20_Witness ==
    /\ ProfileCalled /\ pc = "flip"
    /\ ZeroVolRows(option_chain_copy) # {}
    /\ WithoutZeroVol(option_chain_long) # <<>>
    /\ SameExpirations(WithoutZeroVol(option_chain_long))
    /\ \E k \in 1 .. NumLevels : Sign(total_gamma[k]) # 0

\* a <= x <= b.
Between(a, x, b) == ~Lt(x, a) /\ ~Lt(b, x)

\* C21: every level interpolated at a sign change between the adjacent levels
\* L[k] < L[k+1] lies in [L[k], L[k+1]], is L[k+1] when the curve is 0 at k+1
\* and L[k] when it is 0 at k; so the returned zero-gamma level lies between
\* the two levels of the first sign change and within
\* [pct_from * spot_price, pct_to * spot_price].
C21_ZeroGammaInsideInterval ==
    (ProfileCalled /\ pc = "returned") =>
        LET lv    == gamma_profile.index
            curve == gamma_profile.all
        IN  \A idx \in {zero_cross_idx(curve)} :
            \A found \in {zero_gamma_array(lv, curve)} :
                /\ \A j \in DOMAIN idx :
                       Lt(lv[idx[j]], lv[idx[j] + 1]) =>
                           /\ Between(lv[idx[j]], found[j], lv[idx[j] + 1])
                           /\ Sign(curve[idx[j] + 1]) = 0 => found[j] = lv[idx[j] + 1]
                           /\ Sign(curve[idx[j]]) = 0 => found[j] = lv[idx[j]]
                /\ Lt(lv[idx[1]], lv[idx[1] + 1]) =>
                       /\ Between(lv[idx[1]], zero_gamma, lv[idx[1] + 1])
                       /\ Between(Mul(pct_from, spot_price), zero_gamma,
                                  Mul(pct_to, spot_price))

\* A returned profile over ascending levels whose first sign change ends on
\* a zero and which has a sign change that starts on a zero.
C21_Witness ==
    /\ ProfileCalled /\ pc = "returned" /\ Lt(pct_from, pct_to)
    /\ LET curve == gamma_profile.all
           idx   == zero_cross_idx(curve)
       IN  /\ Sign(curve[idx[1]]) # 0 /\ Sign(curve[idx[1] + 1]) = 0
           /\ \E j \in DOMAIN idx : Sign(curve[idx[j]]) = 0

\* No contract of the chain expires on a Friday with day of month in 15..21.
NoThirdFriday ==
    \A k \in DOMAIN option_chain_long :
        ~(weekday(option_chain_long[k].expiration) = 4
            /\ day(option_chain_long[k].expiration) \in 15 .. 21)

\* C22: for a chain without a third-Friday expiration the next monthly
\* expiration is NaT, leaving it out removes no contract, so the ex-next-monthly
\* value equals the all-contracts value at every level swept and in the
\* returned profile, and neither lines 189-191 nor lines 216-219 raise: the
\* only exceptions of such a call are the IndexError of line 237 after a
\* complete sweep and the ValueError of line 202 on a chain without rows.
C22_NoThirdFridayRemovesNothing ==
    (ProfileCalled /\ NoThirdFriday /\ pc # "calculate_gamma_profile") =>
        /\ next_monthly_exp = NaT
        /\ Len(total_gamma_ex_fri) = i
        /\ \A k \in 1 .. i : total_gamma_ex_fri[k] = total_gamma[k]
        /\ pc = "returned" => gamma_profile.ex_next_monthly = gamma_profile.all
        /\ pc = "raised" =>
               \/ error = "IndexError" /\ i = NumLevels
               \/ error = "ValueError" /\ option_chain_long = <<>>

\* A returned profile, not zero everywhere, of a chain with contracts none of
\* which expires on a third Friday.
C22_Witness ==
    /\ ProfileCalled /\ pc = "returned" /\ Lt(pct_from, pct_to)
    /\ NoThirdFriday /\ option_chain_long # <<>>
    /\ \E k \in 1 .. NumLevels : Sign(gamma_profile.ex_next_monthly[k]) # 0

ThirdFridayCalled == entry = "is_third_friday"

\* The number of Fridays among the first k dates of a list.
FridaysUpTo(dates, k) == Cardinality({j \in 1 .. k : weekday(dates[j]) = 4})

\* C23: over the dates of a calendar month, whatever its length and the
\* weekday it starts on, is_third_friday is true of exactly one date, and
\* it is true of a date exactly when the date is a Friday and the third of
\* the month's Fridays.
C23_ThirdFridayOfMonth ==
    (ThirdFridayCalled /\ pc = "returned") =>
        /\ Len(third_friday_flags) = Len(dates_arg)
        /\ Cardinality({k \in DOMAIN dates_arg : third_friday_flags[k]}) = 1
        /\ \A k \in DOMAIN dates_arg :
               third_friday_flags[k]
                   <=> (weekday(dates_arg[k]) = 4 /\ FridaysUpTo(dates_arg, k) = 3)

\* Every length of month on every starting weekday is among the months.
MonthShapesCovered ==
    \A n \in 28 .. 31 : \A w \in 0 .. 6 :
        \E m \in Months : month_length(m) = n /\ weekday(month_start(m)) = w

\* is_third_friday has been applied to the dates of a February of 29 days
\* whose third Friday is the 15th, the months covering every shape.
C23_Witness ==
    /\ ThirdFridayCalled /\ pc = "returned"
    /\ Len(dates_arg) = 29
    /\ third_friday_flags[15]
    /\ MonthShapesCovered

UpdateCalled == entry = "update_database"

\* The keys of the documents of a gex collection.
KeysOf(collection) == {collection[k].key : k \in DOMAIN collection}

\* The uploads document, the quote-info document and the SQL row of the run
\* with the given upload id exist.
RunRecorded(db, table, id) ==
    /\ \E k \in DOMAIN db.uploads : db.uploads[k]._id = id
    /\ \E k \in DOMAIN db.quote_info : db.quote_info[k].mongodb_upload_id = id
    /\ \E k \in DOMAIN table : table[k].mongodb_id = id

\* C24: a step of an update run that inserts a gex_profile, gex_zero or
\* gex_strikes document inserts one document, keyed by the upload id of the
\* run under way, when that run's uploads document, quote-info document and
\* SQL row exist; the gex_profile document comes first, the gex_zero document
\* when the run's gex_profile document exists, the gex_strikes document when
\* its gex_zero document exists.
C24_GexDocumentsAfterRunRecords ==
    [][ LET id == response._id
        IN  /\ mongo'.gex_profile # mongo.gex_profile =>
                  /\ \E doc \in [_id : 1 .. object_ids', key : {id}] :
                         mongo'.gex_profile = Append(mongo.gex_profile, doc)
                  /\ RunRecorded(mongo, id_table, id)
                  /\ id \notin KeysOf(mongo.gex_zero) \cup KeysOf(mongo.gex_strikes)
            /\ mongo'.gex_zero # mongo.gex_zero =>
                  /\ \E doc \in [_id : 1 .. object_ids', key : {id}] :
                         mongo'.gex_zero = Append(mongo.gex_zero, doc)
                  /\ RunRecorded(mongo, id_table, id)
                  /\ id \in KeysOf(mongo.gex_profile)
                  /\ id \notin KeysOf(mongo.gex_strikes)
            /\ mongo'.gex_strikes # mongo.gex_strikes =>
                  /\ \E doc \in [_id : 1 .. object_ids', key : {id}] :
                         mongo'.gex_strikes = Append(mongo.gex_strikes, doc)
                  /\ RunRecorded(mongo, id_table, id)
                  /\ id \in KeysOf(mongo.gex_profile)
                  /\ id \in KeysOf(mongo.gex_zero)
      ]_vars

\* A second update run has returned with its three gex documents stored.
C24_Witness ==
    /\ UpdateCalled /\ pc = "returned" /\ Len(runs) >= 1
    /\ response._id \in KeysOf(mongo.gex_profile)
    /\ response._id \in KeysOf(mongo.gex_zero)
    /\ response._id \in KeysOf(mongo.gex_strikes)
    /\ RunRecorded(mongo, id_table, response._id)

\* No gex document is keyed by the upload id.
NoGexDocuments(id) ==
    id \notin KeysOf(mongo.gex_profile) \cup KeysOf(mongo.gex_zero)
                  \cup KeysOf(mongo.gex_strikes)

\* C25: once calculate_gamma_profile has raised in an update run, in that run
\* and through the update runs after it no gex_profile, gex_zero or
\* gex_strikes document is keyed by the run's upload id, while its uploads
\* document, its quote-info document and its SQL row stay stored.
C25_RaisedRunStoresNoGex ==
    UpdateCalled =>
        /\ error \in ProfileErrors =>
               /\ NoGexDocuments(response._id)
               /\ RunRecorded(mongo, id_table, response._id)
        /\ \A k \in DOMAIN runs :
               runs[k].error \in ProfileErrors =>
                   /\ NoGexDocuments(runs[k].upload_id)
                   /\ RunRecorded(mongo, id_table, runs[k].upload_id)

\* A run in which calculate_gamma_profile raised has been followed by a run
\* that returned.
C25_Witness ==
    /\ UpdateCalled /\ pc = "returned" /\ Len(runs) >= 1
    /\ runs[Len(runs)].error \in ProfileErrors
    /\ ~NoGexDocuments(response._id)

====
